---- MODULE Spec2Model ----
(***************************************************************************)
(* Model of the node system of rlespinasse/flows (package hoff):           *)
(* src/nodesystem.go.  A NodeSystem is built with AddNode, AddLink,        *)
(* AddLinkOnBranch and ConfigureJoinModeOnNode, validated with IsValid and *)
(* frozen with Activate, after which InitialNodes, Follow and Ancestors    *)
(* read the indices built by Activate.                                     *)
(*                                                                         *)
(* Nodes are compared by identity in the Go code; here a node is a string  *)
(* naming the instance.  A *bool branch is one of "none" (nil), "true",    *)
(* "false".  Go slices are modelled with their backing arrays where the    *)
(* code shares them (findCycle).                                           *)
(***************************************************************************)
EXTENDS Integers, Sequences, FiniteSets, TLC

(***************************************************************************)
(* Bounds of the model.                                                    *)
(***************************************************************************)
MaxLinks == 3
MaxDeepLinks == 5

(***************************************************************************)
(* Values.                                                                 *)
(***************************************************************************)
Nil == "nil"
ActionNodes == {"A", "B", "C", "E"}
DecisionNodes == {"D", "F"}
Nodes == ActionNodes \cup DecisionNodes

\* Node.DecideCapability(): true for a decision node, false for an action node.
DecideCapability(n) == n \in DecisionNodes

JoinNone == "JoinNone"
JoinAnd == "JoinAnd"
JoinOr == "JoinOr"
JoinModes == {JoinNone, JoinAnd, JoinOr}

NoBranch == "none"
boolPointer(b) == IF b THEN "true" ELSE "false"
Branches == {NoBranch, "true", "false"}

newNodeLink(from, to) == [From |-> from, To |-> to, Branch |-> NoBranch]
newNodeLinkOnBranch(from, to, branch) ==
  [From |-> from, To |-> to, Branch |-> boolPointer(branch)]

\* nodeLinkComparator: two links are equal when from, to and branch value agree.
nodeLinkComparator(x, y) ==
  x.From = y.From /\ x.To = y.To /\ x.Branch = y.Branch

(***************************************************************************)
(* Inputs of the operations.                                               *)
(***************************************************************************)
NodeInputs == {"A", "B", "D"}
\* As many AddNode calls as there are nodes to add: every node can be declared,
\* and one node can be declared that many times.
MaxNodes == Cardinality(NodeInputs)
JoinNodeInputs == {"A"}
\* (from, to, branch) arguments of addLink; branch "none" is AddLink.
LinkInputs ==
  { <<"A", "B", NoBranch>>, <<"B", "D", NoBranch>>, <<"B", "A", NoBranch>>,
    <<"D", "A", "true">>,
    <<Nil, "B", NoBranch>>, <<"A", Nil, NoBranch>>, <<"A", "A", NoBranch>>,
    <<"D", "A", NoBranch>>, <<"A", "B", "true">> }

\* Inputs of the calls on the systems of InitDeep: a walk of four
\* links (A, B, C, D, back to A), a shorter cycle through D (back to B), a
\* way out of D (to E) and a second way to C (from A).
DeepNodeInputs ==
  {<<"A", "B", "C", "D", "E">>, <<"A", "B", "C">>, <<"A", "B", "C", "D", "F">>}
DeepLinkInputs ==
  { <<"A", "B", NoBranch>>, <<"B", "C", NoBranch>>, <<"C", "D", NoBranch>>,
    <<"D", "A", "true">>, <<"D", "B", "false">>, <<"D", "E", "false">>,
    <<"A", "C", NoBranch>> }
DeepJoinNodeInputs == {"B"}
DeepJoinModeInputs == {JoinAnd}

(***************************************************************************)
(* Compute states.  A state has a tag (Value), a branch (a *bool: nil or a  *)
(* pointer) and an error (nil or an error value).  The pointers "true" and *)
(* "false" are the ones boolPointer returns; "otherTrue" points to another *)
(* bool that holds true.  An error value is a record: the object and the   *)
(* message its Error() returns.                                            *)
(***************************************************************************)
ContinueState == "Continue"
SkipState == "Skip"
AbortState == "Abort"
StateTypes == {ContinueState, SkipState, AbortState}

BoolPointers == {"true", "false", "otherTrue"}
deref(p) == p \in {"true", "otherTrue"}

NoError == [obj |-> 0, msg |-> ""]
ErrorInputs ==
  { [obj |-> 1, msg |-> "error"], [obj |-> 2, msg |-> "error"],
    [obj |-> 3, msg |-> "boom"] }
\* err.Error()
ErrorMessage(e) == e.msg

ComputeState(value, branch, error) ==
  [Value |-> value, Branch |-> branch, Error |-> error]

NewContinueComputeState == ComputeState(ContinueState, NoBranch, NoError)

\* NewContinueOnBranchComputeState that forgets the branch.
NewContinueOnBranchWithoutBranch(b) == ComputeState(ContinueState, NoBranch, NoError)

NewContinueOnBranchComputeState(b) ==
  ComputeState(ContinueState, boolPointer(b), NoError)

NewSkipComputeState == ComputeState(SkipState, NoBranch, NoError)

NewAbortComputeState(err) == ComputeState(AbortState, NoBranch, err)

\* fmt's %v of a bool.
formatBool(b) == IF b THEN "true" ELSE "false"

\* ComputeState.String()
ComputeStateString(cs) ==
  IF cs.Value = ContinueState /\ cs.Branch # NoBranch
  THEN "'Continue on " \o formatBool(deref(cs.Branch)) \o "'"
  ELSE IF cs.Value = AbortState /\ cs.Error # NoError
  THEN "'Abort on " \o ErrorMessage(cs.Error) \o "'"
  ELSE "'" \o cs.Value \o "'"

\* cmp.Equal on two *bool: both nil, or both pointers to equal bools.
cmpEqualBoolPointers(p, q) ==
  IF p = NoBranch \/ q = NoBranch THEN p = q ELSE deref(p) = deref(q)

\* errorComparator: both nil, or both errors with the same message.
errorComparator(e, f) ==
  IF e = NoError \/ f = NoError THEN e = f ELSE ErrorMessage(e) = ErrorMessage(f)

\* The cases of Test_ComputeState_Call: the call, and what the test expects.
testCases ==
  { [call |-> <<"NewContinueComputeState">>,
     expectedState |-> ContinueState, expectedNodeBranch |-> NoBranch,
     expectedError |-> NoError, expectedString |-> "'Continue'"],
    [call |-> <<"NewContinueOnBranchComputeState", TRUE>>,
     expectedState |-> ContinueState, expectedNodeBranch |-> boolPointer(TRUE),
     expectedError |-> NoError, expectedString |-> "'Continue on true'"],
    [call |-> <<"NewSkipComputeState">>,
     expectedState |-> SkipState, expectedNodeBranch |-> NoBranch,
     expectedError |-> NoError, expectedString |-> "'Skip'"],
    [call |-> <<"NewAbortComputeState", [obj |-> 1, msg |-> "error"]>>,
     expectedState |-> AbortState, expectedNodeBranch |-> NoBranch,
     expectedError |-> [obj |-> 2, msg |-> "error"],
     expectedString |-> "'Abort on error'"] }

\* The body of the test for one case: no t.Errorf is reached.
testPasses(testCase, computeState) ==
  /\ computeState.Value = testCase.expectedState
  /\ cmpEqualBoolPointers(computeState.Branch, testCase.expectedNodeBranch)
  /\ errorComparator(computeState.Error, testCase.expectedError)
  /\ ComputeStateString(computeState) = testCase.expectedString

\* runStateEqualOpts that compares the branch pointers, not the bools.
runStateEqualByPointer(x, y) ==
  x.Value = y.Value /\ x.Branch = y.Branch /\ errorComparator(x.Error, y.Error)

\* runStateEqualOpts, on states with the fields value, branch and err.
runStateEqualOpts(x, y) ==
  IF x.Value # y.Value THEN FALSE
  ELSE IF x.Branch # NoBranch /\ y.Branch # NoBranch /\ deref(x.Branch) # deref(y.Branch)
  THEN FALSE
  ELSE IF ~(x.Branch # NoBranch /\ y.Branch # NoBranch)
          /\ (x.Branch # NoBranch \/ y.Branch # NoBranch)
  THEN FALSE
  ELSE IF x.Error # NoError /\ y.Error # NoError /\ ErrorMessage(x.Error) # ErrorMessage(y.Error)
  THEN FALSE
  ELSE IF ~(x.Error # NoError /\ y.Error # NoError) /\ (x.Error # NoError \/ y.Error # NoError)
  THEN FALSE
  ELSE TRUE

\* A compute state with the call that made it.
Made(call, state) == [call |-> call, state |-> state]

NoRunStates == [i \in 1..3 |-> Made(<<"NewContinueComputeState">>, NewContinueComputeState)]

(***************************************************************************)
(* State: the fields of NodeSystem, and ret, what the last call returned.  *)
(***************************************************************************)
VARIABLES activated, nodes, nodesJoinModes, links,
          initialNodes, followingNodesTree, ancestorsNodesTree, ret,
          activatedAgain, runStates,
          stateOf, pending, aborted, invoked,
          cycleSearch

\* activatedAgain is a history variable, not a field of the program: it is
\* TRUE once Activate has been called on a system that was already activated.
\* runStates holds three compute states made by a client, each with the call
\* that made it; the operations of the node system leave it alone.
vars == <<activated, nodes, nodesJoinModes, links,
          initialNodes, followingNodesTree, ancestorsNodesTree, ret,
          activatedAgain, runStates, stateOf, pending, aborted, invoked,
          cycleSearch>>

EmptyMap == [x \in {} |-> x]

\* The state of a computation on the node system: the compute state recorded
\* for each node, the queue of nodes to look at, whether a node has aborted,
\* and how many times Compute was invoked on each node.
computation == <<stateOf, pending, aborted, invoked>>

NoComputation ==
  /\ stateOf = EmptyMap
  /\ pending = <<>>
  /\ aborted = FALSE
  /\ invoked = EmptyMap

\* The cycle search of IsValid from one node, in steps: the node it started
\* from, the stack of findCycle calls, the backing arrays of the slices, and
\* once the first call has returned, done and the cycles it returned.
NoSearch ==
  [topNode |-> Nil, stack |-> <<>>, heap |-> <<>>, done |-> FALSE, cycles |-> <<>>]

system == <<activated, nodes, nodesJoinModes, links,
            initialNodes, followingNodesTree, ancestorsNodesTree>>

Ret(ok, err) == [ok |-> ok, err |-> err]

FrozenAddNodeError == "can't add node, node system is freeze due to activation"
FrozenJoinModeError ==
  "can't add node join mode, node system is freeze due to activation"
FrozenAddLinkError ==
  "can't add branch link, node system is freeze due to activation"
UnvalidatedError == "can't activate a unvalidated node system"

\* NewNodeSystem
Init ==
  /\ activated = FALSE
  /\ nodes = <<>>
  /\ links = <<>>
  /\ nodesJoinModes = EmptyMap
  /\ initialNodes = <<>>
  /\ followingNodesTree = EmptyMap
  /\ ancestorsNodesTree = EmptyMap
  /\ ret = Ret(TRUE, "")
  /\ activatedAgain = FALSE
  /\ runStates = NoRunStates
  /\ NoComputation
  /\ cycleSearch = NoSearch

(***************************************************************************)
(* Builder operations.                                                     *)
(***************************************************************************)
\* AddNode without the test of s.activated.
AddNodeUnfrozen(n) ==
  /\ nodes' = Append(nodes, n)
  /\ ret' = Ret(TRUE, "")
  /\ UNCHANGED <<activated, nodesJoinModes, links,
                 initialNodes, followingNodesTree, ancestorsNodesTree>>

AddNode(n) ==
  IF activated
  THEN /\ ret' = Ret(FALSE, FrozenAddNodeError)
       /\ UNCHANGED system
  ELSE /\ nodes' = Append(nodes, n)
       /\ ret' = Ret(TRUE, "")
       /\ UNCHANGED <<activated, nodesJoinModes, links,
                      initialNodes, followingNodesTree, ancestorsNodesTree>>

ConfigureJoinModeOnNode(n, m) ==
  IF activated
  THEN /\ ret' = Ret(FALSE, FrozenJoinModeError)
       /\ UNCHANGED system
  ELSE /\ nodesJoinModes' =
            [x \in DOMAIN nodesJoinModes \cup {n} |->
               IF x = n THEN m ELSE nodesJoinModes[x]]
       /\ ret' = Ret(TRUE, "")
       /\ UNCHANGED <<activated, nodes, links,
                      initialNodes, followingNodesTree, ancestorsNodesTree>>

addLinkFails(err) ==
  /\ ret' = Ret(FALSE, err)
  /\ UNCHANGED system

\* addLink without the test of from == to.
addLinkSelfAllowed(from, to, branch) ==
  IF activated
  THEN addLinkFails(FrozenAddLinkError)
  ELSE IF from = Nil
  THEN addLinkFails("can't have missing 'from' attribute")
  ELSE IF branch = NoBranch /\ DecideCapability(from)
  THEN addLinkFails("can't have missing branch")
  ELSE IF branch # NoBranch /\ ~DecideCapability(from)
  THEN addLinkFails("can't have not needed branch")
  ELSE IF to = Nil
  THEN addLinkFails("can't have missing 'to' attribute")
  ELSE /\ links' = Append(links,
                     IF branch = NoBranch
                     THEN newNodeLink(from, to)
                     ELSE newNodeLinkOnBranch(from, to, branch = "true"))
       /\ ret' = Ret(TRUE, "")
       /\ UNCHANGED <<activated, nodes, nodesJoinModes,
                      initialNodes, followingNodesTree, ancestorsNodesTree>>

addLink(from, to, branch) ==
  IF activated
  THEN addLinkFails(FrozenAddLinkError)
  ELSE IF from = Nil
  THEN addLinkFails("can't have missing 'from' attribute")
  ELSE IF branch = NoBranch /\ DecideCapability(from)
  THEN addLinkFails("can't have missing branch")
  ELSE IF branch # NoBranch /\ ~DecideCapability(from)
  THEN addLinkFails("can't have not needed branch")
  ELSE IF to = Nil
  THEN addLinkFails("can't have missing 'to' attribute")
  ELSE IF from = to
  THEN addLinkFails("can't have link on from and to the same node")
  ELSE /\ links' = Append(links,
                     IF branch = NoBranch
                     THEN newNodeLink(from, to)
                     ELSE newNodeLinkOnBranch(from, to, branch = "true"))
       /\ ret' = Ret(TRUE, "")
       /\ UNCHANGED <<activated, nodes, nodesJoinModes,
                      initialNodes, followingNodesTree, ancestorsNodesTree>>

AddLink(from, to) == addLink(from, to, NoBranch)

AddLinkOnBranch(from, to, branch) ==
  addLink(from, to, boolPointer(branch))

(***************************************************************************)
(* Validation.  An error is a record: its kind (the message prefix), the   *)
(* node and count the message prints, and the link or cycle it prints.     *)
(***************************************************************************)
Err(kind, node, count, lks) ==
  [kind |-> kind, node |-> node, count |-> count, links |-> lks]

OrphanKind == "can't have decision node without link from it"
CycleKind == "Can't have cycle in links between nodes"
UndeclaredFromKind == "can't have undeclared node as 'from' in branch link"
UndeclaredToKind == "can't have undeclared node as 'to' in branch link"
MultipleInstancesKind == "can't have multiple instances of the same node"
MultipleLinksKind == "can't have multiple links to the same node without join mode"

haveNode(ns, n) == \E i \in 1..Len(ns) : ns[i] = n

JoinModeOfNode(jm, n) == IF n \in DOMAIN jm THEN jm[n] ELSE JoinNone

RECURSIVE orphanLoop(_, _, _)
orphanLoop(ns, ls, i) ==
  IF i > Len(ns) THEN <<>>
  ELSE (IF /\ DecideCapability(ns[i])
           /\ ~\E k \in 1..Len(ls) : ls[k].From = ns[i]
        THEN <<Err(OrphanKind, ns[i], 0, <<>>)>>
        ELSE <<>>) \o orphanLoop(ns, ls, i + 1)

checkForOrphanMultiBranchesNode(ns, ls) == orphanLoop(ns, ls, 1)

RECURSIVE undeclaredLoop(_, _, _)
undeclaredLoop(ns, ls, k) ==
  IF k > Len(ls) THEN <<>>
  ELSE (IF ls[k].From # Nil /\ ~haveNode(ns, ls[k].From)
        THEN <<Err(UndeclaredFromKind, ls[k].From, 0, <<ls[k]>>)>>
        ELSE <<>>)
       \o (IF ls[k].To # Nil /\ ~haveNode(ns, ls[k].To)
           THEN <<Err(UndeclaredToKind, ls[k].To, 0, <<ls[k]>>)>>
           ELSE <<>>)
       \o undeclaredLoop(ns, ls, k + 1)

checkForUndeclaredNodeInNodeLink(ns, ls) == undeclaredLoop(ns, ls, 1)

\* count[n] after the double loop: one increment per ordered pair (i, j), i # j,
\* of positions of nodes that hold n.
instanceCount(ns) ==
  [n \in {ns[i] : i \in {i \in 1..Len(ns) :
                            \E j \in 1..Len(ns) : i # j /\ ns[i] = ns[j]}} |->
     Cardinality({p \in (1..Len(ns)) \X (1..Len(ns)) :
                    p[1] # p[2] /\ ns[p[1]] = n /\ ns[p[2]] = n})]

\* The errors, as a set: the code emits them in the iteration order of a Go map.
checkForMultipleInstanceOfSameNode(ns) ==
  LET count == instanceCount(ns)
  IN  {Err(MultipleInstancesKind, n, count[n], <<>>) :
         n \in {n \in DOMAIN count : count[n] > 1}}

\* count[n] after the loop: one increment per link whose To is n.
linkToCount(ls) ==
  [n \in {ls[k].To : k \in 1..Len(ls)} |->
     Cardinality({k \in 1..Len(ls) : ls[k].To = n})]

checkForMultipleLinksToNodeWithoutJoinMode(jm, ls) ==
  LET count == linkToCount(ls)
  IN  {Err(MultipleLinksKind, n, count[n], <<>>) :
         n \in {n \in DOMAIN count :
                  count[n] > 1 /\ JoinModeOfNode(jm, n) = JoinNone}}

(***************************************************************************)
(* Cycle search.  walkednodeLinks is a Go slice: a backing array, a length *)
(* and a capacity.  append writes in place when the capacity allows it, so *)
(* the slices built from one walkednodeLinks for the successive selected   *)
(* links share an array, and a cycle that was returned keeps pointing at   *)
(* it.  heap is the sequence of backing arrays allocated so far; a slice   *)
(* names its array by position (0: the nil slice).                         *)
(***************************************************************************)
NilSlice == [arr |-> 0, len |-> 0, cap |-> 0]

\* Capacity of the array append allocates for a full slice of capacity c
\* (gc runtime: 1 for an empty one, then doubling).
growCap(c) == IF c = 0 THEN 1 ELSE 2 * c

\* append(w, link): the heap and the slice after it.
goAppend(heap, w, link) ==
  IF w.len < w.cap
  THEN [heap |-> [heap EXCEPT ![w.arr] =
                    IF Len(@) > w.len
                    THEN [@ EXCEPT ![w.len + 1] = link]
                    ELSE Append(@, link)],
        slice |-> [arr |-> w.arr, len |-> w.len + 1, cap |-> w.cap]]
  ELSE [heap |-> Append(heap,
                   (IF w.arr = 0 THEN <<>> ELSE SubSeq(heap[w.arr], 1, w.len))
                   \o <<link>>),
        slice |-> [arr |-> Len(heap) + 1, len |-> w.len + 1,
                   cap |-> growCap(w.cap)]]

\* The links a slice holds, read from its backing array.
sliceValue(heap, w) == IF w.arr = 0 THEN <<>> ELSE SubSeq(heap[w.arr], 1, w.len)

selectLinks(ls, currentNode) == SelectSeq(ls, LAMBDA l : l.From = currentNode)

RECURSIVE findCycle(_, _, _, _, _)
RECURSIVE findCycleLoop(_, _, _, _, _, _, _)
\* findCycle that gives up a walk of two links that has not come back to
\* topNode: only direct cycles are found.
findCycleShallow(ls, topNode, currentNode, walkednodeLinks, heap) ==
  IF walkednodeLinks.len > 0 /\ topNode = currentNode
  THEN [cycles |-> <<walkednodeLinks>>, heap |-> heap]
  ELSE IF walkednodeLinks.len >= 2
  THEN [cycles |-> <<>>, heap |-> heap]
  ELSE findCycleLoop(ls, topNode, walkednodeLinks,
                     selectLinks(ls, currentNode), 1, <<>>, heap)

\* The result: the cycles found (slices) and the heap after the search.
findCycle(ls, topNode, currentNode, walkednodeLinks, heap) ==
  IF walkednodeLinks.len > 0 /\ topNode = currentNode
  THEN [cycles |-> <<walkednodeLinks>>, heap |-> heap]
  ELSE IF /\ walkednodeLinks.len > 0
          /\ \E i \in 1..walkednodeLinks.len :
                currentNode = heap[walkednodeLinks.arr][i].From
  THEN [cycles |-> <<>>, heap |-> heap]
  ELSE findCycleLoop(ls, topNode, walkednodeLinks,
                     selectLinks(ls, currentNode), 1, <<>>, heap)

findCycleLoop(ls, topNode, walkednodeLinks, selectedLinks, k, cycles, heap) ==
  IF k > Len(selectedLinks)
  THEN [cycles |-> cycles, heap |-> heap]
  ELSE LET a == goAppend(heap, walkednodeLinks, selectedLinks[k])
           linkCycles == findCycle(ls, topNode, selectedLinks[k].To, a.slice, a.heap)
       IN  findCycleLoop(ls, topNode, walkednodeLinks, selectedLinks, k + 1,
                         cycles \o linkCycles.cycles, linkCycles.heap)

\* findCycle(s, node, node, nil): the cycles as the caller reads them once the
\* search from node is over.
possibleCycles(ls, node) ==
  LET r == findCycle(ls, node, node, NilSlice, <<>>)
  IN  [i \in 1..Len(r.cycles) |-> sliceValue(r.heap, r.cycles[i])]

RECURSIVE allCycles(_, _, _)
allCycles(ns, ls, i) ==
  IF i > Len(ns) THEN <<>>
  ELSE possibleCycles(ls, ns[i]) \o allCycles(ns, ls, i + 1)

\* sameLinkCount == len(x): every link of x is equal to some link of y.
nodeLinkSliceComparator(x, y) ==
  \A i \in 1..Len(x) : \E j \in 1..Len(y) : nodeLinkComparator(x[i], y[j])

RECURSIVE trimCycles(_, _, _)
trimCycles(cycles, i, trimmedCycles) ==
  IF i > Len(cycles) THEN trimmedCycles
  ELSE trimCycles(cycles, i + 1,
         IF \E t \in 1..Len(trimmedCycles) :
              nodeLinkSliceComparator(cycles[i], trimmedCycles[t])
         THEN trimmedCycles
         ELSE Append(trimmedCycles, cycles[i]))

checkForCyclicRedundancyInNodeLinks(ns, ls) ==
  LET trimmedCycles == trimCycles(allCycles(ns, ls, 1), 1, <<>>)
  IN  [i \in 1..Len(trimmedCycles) |-> Err(CycleKind, Nil, 0, trimmedCycles[i])]

\* cmp.Equal requires a symmetric comparer and checks the first call of every
\* comparison by swapping the arguments; nodeLinkSliceComparator is not
\* symmetric.  TRUE when some comparison of the trimming loop sees
\* f(x, y) # f(y, x).
RECURSIVE trimAsymmetric(_, _, _)
trimAsymmetric(cycles, i, trimmedCycles) ==
  IF i > Len(cycles) THEN FALSE
  ELSE \/ \E t \in 1..Len(trimmedCycles) :
            nodeLinkSliceComparator(cycles[i], trimmedCycles[t])
              # nodeLinkSliceComparator(trimmedCycles[t], cycles[i])
       \/ trimAsymmetric(cycles, i + 1,
            IF \E t \in 1..Len(trimmedCycles) :
                 nodeLinkSliceComparator(cycles[i], trimmedCycles[t])
            THEN trimmedCycles
            ELSE Append(trimmedCycles, cycles[i]))

\* The outcomes of the cmp.Equal calls of the trimming loop other than
\* returning f(x, y): a panic where the comparer is found not symmetric.
cmpEqualPanics(ns, ls) ==
  IF trimAsymmetric(allCycles(ns, ls, 1), 1, <<>>) THEN {FALSE, TRUE} ELSE {FALSE}

\* The orders in which a range over a Go map with the keys of S visits them.
mapRangeOrders(S) ==
  {f \in [1..Cardinality(S) -> S] : \A x \in S : \E i \in 1..Cardinality(S) : f[i] = x}

\* The error lists IsValid can return (when it returns).
IsValidErrors(ns, jm, ls) ==
  LET fixed == checkForOrphanMultiBranchesNode(ns, ls)
               \o checkForCyclicRedundancyInNodeLinks(ns, ls)
               \o checkForUndeclaredNodeInNodeLink(ns, ls)
  IN  {fixed \o a \o b :
         a \in mapRangeOrders(checkForMultipleInstanceOfSameNode(ns)),
         b \in mapRangeOrders(checkForMultipleLinksToNodeWithoutJoinMode(jm, ls))}

\* len(errors) == 0, the validity flag of IsValid.
validity(ns, jm, ls) == \A errors \in IsValidErrors(ns, jm, ls) : Len(errors) = 0

PanicMessage == "panic: non-deterministic or non-symmetric function detected"

\* IsValid: what a call can return in a system with these nodes, join modes
\* and links.  It changes nothing.
IsValid(ns, jm, ls) ==
  {[ok |-> Len(errors) = 0, errors |-> errors, panic |-> FALSE] :
     errors \in IsValidErrors(ns, jm, ls)}
  \cup {[ok |-> FALSE, errors |-> <<>>, panic |-> TRUE] :
          p \in cmpEqualPanics(ns, ls) \ {FALSE}}

(***************************************************************************)
(* Activation.                                                             *)
(***************************************************************************)
\* treeAppend that starts a new bucket at every link: tree[key][branch] = [value].
treeOverwrite(tree, key, branch, value) ==
  LET onBranch == IF key \in DOMAIN tree THEN tree[key] ELSE EmptyMap
      onBranch2 == [b \in DOMAIN onBranch \cup {branch} |->
                      IF b = branch THEN <<value>> ELSE onBranch[b]]
  IN  [k \in DOMAIN tree \cup {key} |-> IF k = key THEN onBranch2 ELSE tree[k]]

\* tree[key][branch] = append(tree[key][branch], value), creating the maps.
treeAppend(tree, key, branch, value) ==
  LET onBranch == IF key \in DOMAIN tree THEN tree[key] ELSE EmptyMap
      bucket == IF branch \in DOMAIN onBranch THEN onBranch[branch] ELSE <<>>
      onBranch2 == [b \in DOMAIN onBranch \cup {branch} |->
                      IF b = branch THEN Append(bucket, value) ELSE onBranch[b]]
  IN  [k \in DOMAIN tree \cup {key} |-> IF k = key THEN onBranch2 ELSE tree[k]]

RECURSIVE buildFollowingNodesTree(_, _, _)
buildFollowingNodesTree(ls, k, tree) ==
  IF k > Len(ls) THEN tree
  ELSE buildFollowingNodesTree(ls, k + 1,
         treeAppend(tree, ls[k].From, ls[k].Branch, ls[k].To))

\* The ancestors loop as a copy of the following loop with the key left
\* on link.From.
RECURSIVE buildAncestorsNodesTreeKeyedByFrom(_, _, _)
buildAncestorsNodesTreeKeyedByFrom(ls, k, tree) ==
  IF k > Len(ls) THEN tree
  ELSE buildAncestorsNodesTreeKeyedByFrom(ls, k + 1,
         treeAppend(tree, ls[k].From, ls[k].Branch, ls[k].From))

RECURSIVE buildAncestorsNodesTree(_, _, _)
buildAncestorsNodesTree(ls, k, tree) ==
  IF k > Len(ls) THEN tree
  ELSE buildAncestorsNodesTree(ls, k + 1,
         treeAppend(tree, ls[k].To, ls[k].Branch, ls[k].From))

toNodes(ls) == [k \in 1..Len(ls) |-> ls[k].To]

\* The loop with isInitialNode declared before it: once a node is the target
\* of a link, no later node is an initial node.
RECURSIVE initialNodesLoopFlagKept(_, _, _)
initialNodesLoopFlagKept(ns, to, i) ==
  IF i > Len(ns) THEN <<>>
  ELSE LET isInitialNode == ~\E j \in 1..i, k \in 1..Len(to) : ns[j] = to[k]
       IN  (IF isInitialNode THEN <<ns[i]>> ELSE <<>>)
           \o initialNodesLoopFlagKept(ns, to, i + 1)

RECURSIVE initialNodesLoop(_, _, _)
initialNodesLoop(ns, to, i) ==
  IF i > Len(ns) THEN <<>>
  ELSE LET isInitialNode == ~\E k \in 1..Len(to) : ns[i] = to[k]
       IN  (IF isInitialNode THEN <<ns[i]>> ELSE <<>>)
           \o initialNodesLoop(ns, to, i + 1)

\* The initial nodes with toNodes collected from link.From.
buildInitialNodesFromSide(ns, ls) ==
  initialNodesLoop(ns, [k \in 1..Len(ls) |-> ls[k].From], 1)

buildInitialNodes(ns, ls) == initialNodesLoop(ns, toNodes(ls), 1)

\* Activate past its first test: validation, then the indices.
activateUnactivated ==
  \E panics \in cmpEqualPanics(nodes, links) :
    IF panics
    THEN /\ ret' = Ret(FALSE, PanicMessage)
         /\ UNCHANGED system
    ELSE IF ~validity(nodes, nodesJoinModes, links)
    THEN /\ ret' = Ret(FALSE, UnvalidatedError)
         /\ UNCHANGED system
    ELSE /\ initialNodes' = buildInitialNodes(nodes, links)
         /\ followingNodesTree' = buildFollowingNodesTree(links, 1, EmptyMap)
         /\ ancestorsNodesTree' = buildAncestorsNodesTree(links, 1, EmptyMap)
         /\ activated' = TRUE
         /\ ret' = Ret(TRUE, "")
         /\ UNCHANGED <<nodes, nodesJoinModes, links>>

\* Activate that refuses an activated system instead of returning nil.
ActivateOnce ==
  IF activated
  THEN /\ ret' = Ret(FALSE, "node system is already activated")
       /\ UNCHANGED system
  ELSE activateUnactivated

Activate ==
  IF activated
  THEN /\ ret' = Ret(TRUE, "")
       /\ UNCHANGED system
  ELSE activateUnactivated

(***************************************************************************)
(* Queries.                                                                *)
(***************************************************************************)
InitialNodes == initialNodes

IsActivated == activated

treeLookup(tree, n, branch) ==
  IF n \in DOMAIN tree /\ branch \in DOMAIN tree[n] THEN tree[n][branch] ELSE <<>>

\* Follow and Ancestors change nothing: the nodes and the error they return.
Follow(n, branch) ==
  IF ~activated
  THEN [nodes |-> <<>>, err |-> "can't follow a node if system is not activated"]
  ELSE [nodes |-> treeLookup(followingNodesTree, n, branch), err |-> ""]

Ancestors(n, branch) ==
  IF ~activated
  THEN [nodes |-> <<>>,
        err |-> "can't get ancestors of a node if system is not activated"]
  ELSE [nodes |-> treeLookup(ancestorsNodesTree, n, branch), err |-> ""]

(***************************************************************************)
(* The calls a client makes, with inputs from the sets above.              *)
(***************************************************************************)
AddNodeCall ==
  /\ \E n \in NodeInputs : AddNode(n) /\ Len(nodes') <= MaxNodes
  /\ UNCHANGED <<activatedAgain, runStates, computation, cycleSearch>>

ConfigureJoinModeOnNodeCall ==
  /\ \E n \in JoinNodeInputs, m \in JoinModes : ConfigureJoinModeOnNode(n, m)
  /\ UNCHANGED <<activatedAgain, runStates, computation, cycleSearch>>

AddLinkCall ==
  /\ \E l \in {l \in LinkInputs : l[3] = NoBranch} :
       AddLink(l[1], l[2]) /\ Len(links') <= MaxLinks
  /\ UNCHANGED <<activatedAgain, runStates, computation, cycleSearch>>

AddLinkOnBranchCall ==
  /\ \E l \in {l \in LinkInputs : l[3] # NoBranch} :
       AddLinkOnBranch(l[1], l[2], l[3] = "true") /\ Len(links') <= MaxLinks
  /\ UNCHANGED <<activatedAgain, runStates, computation, cycleSearch>>

ActivateCall ==
  /\ Activate
  /\ activatedAgain' = (activatedAgain \/ activated)
  /\ UNCHANGED <<runStates, computation, cycleSearch>>

Next ==
  \/ AddNodeCall
  \/ ConfigureJoinModeOnNodeCall
  \/ AddLinkCall
  \/ AddLinkOnBranchCall
  \/ ActivateCall

Spec == Init /\ [][Next]_vars

(***************************************************************************)
(* The same calls on larger systems, with longer walks: five declared      *)
(* nodes, or three declared nodes and links that reach undeclared ones.    *)
(***************************************************************************)
\* NewNodeSystem, then AddNode of A, B, C, D, E or of A, B, C.
InitDeep ==
  /\ activated = FALSE
  /\ nodes \in DeepNodeInputs
  /\ links = <<>>
  /\ nodesJoinModes = EmptyMap
  /\ initialNodes = <<>>
  /\ followingNodesTree = EmptyMap
  /\ ancestorsNodesTree = EmptyMap
  /\ ret = Ret(TRUE, "")
  /\ activatedAgain = FALSE
  /\ runStates = NoRunStates
  /\ NoComputation
  /\ cycleSearch = NoSearch

DeepConfigureJoinModeOnNodeCall ==
  /\ \E n \in DeepJoinNodeInputs, m \in DeepJoinModeInputs :
       ConfigureJoinModeOnNode(n, m)
  /\ UNCHANGED <<activatedAgain, runStates, computation, cycleSearch>>

\* The client of these systems adds a link it has not added before.
DeepAddLinkCall ==
  /\ \E l \in {l \in DeepLinkInputs : l[3] = NoBranch} :
       /\ \A k \in 1..Len(links) : links[k] # newNodeLink(l[1], l[2])
       /\ AddLink(l[1], l[2])
       /\ Len(links') <= MaxDeepLinks
  /\ UNCHANGED <<activatedAgain, runStates, computation, cycleSearch>>

DeepAddLinkOnBranchCall ==
  /\ \E l \in {l \in DeepLinkInputs : l[3] # NoBranch} :
       /\ \A k \in 1..Len(links) :
            links[k] # newNodeLinkOnBranch(l[1], l[2], l[3] = "true")
       /\ AddLinkOnBranch(l[1], l[2], l[3] = "true")
       /\ Len(links') <= MaxDeepLinks
  /\ UNCHANGED <<activatedAgain, runStates, computation, cycleSearch>>

NextDeep ==
  \/ DeepConfigureJoinModeOnNodeCall
  \/ DeepAddLinkCall
  \/ DeepAddLinkOnBranchCall
  \/ ActivateCall

SpecDeep == InitDeep /\ [][NextDeep]_vars

(***************************************************************************)
(* A client that makes compute states, with the constructors or field by   *)
(* field, beside a node system it leaves as NewNodeSystem made it.         *)
(***************************************************************************)
RunStateInputs ==
  {ComputeState(v, b, e) :
     v \in {ContinueState, AbortState},
     b \in {NoBranch} \cup BoolPointers,
     e \in {NoError, [obj |-> 2, msg |-> "error"], [obj |-> 3, msg |-> "boom"]}}

Make(i, call, state) ==
  /\ runStates' = [runStates EXCEPT ![i] = Made(call, state)]
  /\ UNCHANGED <<system, ret, activatedAgain, computation, cycleSearch>>

NewContinueComputeStateCall ==
  \E i \in 1..3 :
    Make(i, <<"NewContinueComputeState">>, NewContinueComputeState)

NewContinueOnBranchComputeStateCall ==
  \E i \in 1..3, b \in BOOLEAN :
    Make(i, <<"NewContinueOnBranchComputeState", b>>,
         NewContinueOnBranchComputeState(b))

NewSkipComputeStateCall ==
  \E i \in 1..3 : Make(i, <<"NewSkipComputeState">>, NewSkipComputeState)

NewAbortComputeStateCall ==
  \E i \in 1..3, err \in ErrorInputs :
    Make(i, <<"NewAbortComputeState", err>>, NewAbortComputeState(err))

\* A state written field by field.
RunStateLiteral ==
  \E i \in 1..3, state \in RunStateInputs : Make(i, <<"RunState">>, state)

NextStates ==
  \/ NewContinueComputeStateCall
  \/ NewContinueOnBranchComputeStateCall
  \/ NewSkipComputeStateCall
  \/ NewAbortComputeStateCall
  \/ RunStateLiteral

SpecStates == Init /\ [][NextStates]_vars

(***************************************************************************)
(* The computation driver, in sequential mode, on an activated node system.*)
(***************************************************************************)
\* The node systems a computation runs on: nodes, join modes and links.
ComputationSystemInputs ==
  { [nodes |-> <<"A", "B", "C">>, joins |-> [C |-> j],
     links |-> <<newNodeLink("A", "C"), newNodeLink("B", "C")>>] :
       j \in {JoinOr, JoinAnd} }
  \cup
  { [nodes |-> <<"D", "A", "B", "C">>, joins |-> [C |-> j],
     links |-> <<newNodeLinkOnBranch("D", "A", TRUE),
                 newNodeLinkOnBranch("D", "B", FALSE),
                 newNodeLink("A", "C"), newNodeLink("B", "C"),
                 newNodeLink("C", "E")>>] :
       j \in {JoinOr, JoinAnd} }

\* NewNodeSystem, the builder calls of one of the inputs, Activate, and
\* NewComputation on the activated system.
InitComputation ==
  /\ \E sys \in ComputationSystemInputs :
       /\ validity(sys.nodes \o <<"E">>, sys.joins, sys.links)
       /\ nodes = sys.nodes \o <<"E">>
       /\ nodesJoinModes = sys.joins
       /\ links = sys.links
       /\ initialNodes = buildInitialNodes(sys.nodes \o <<"E">>, sys.links)
       /\ followingNodesTree = buildFollowingNodesTree(sys.links, 1, EmptyMap)
       /\ ancestorsNodesTree = buildAncestorsNodesTree(sys.links, 1, EmptyMap)
       /\ pending = buildInitialNodes(sys.nodes \o <<"E">>, sys.links)
  /\ activated = TRUE
  /\ ret = Ret(TRUE, "")
  /\ activatedAgain = FALSE
  /\ runStates = NoRunStates
  /\ stateOf = EmptyMap
  /\ aborted = FALSE
  /\ invoked = EmptyMap
  /\ cycleSearch = NoSearch

\* What Compute of a node can return.
ComputeResults(n) ==
  {NewContinueComputeState, NewSkipComputeState,
   NewAbortComputeState([obj |-> 3, msg |-> "boom"])}
  \cup (IF DecideCapability(n)
        THEN {NewContinueOnBranchComputeState(b) : b \in BOOLEAN}
        ELSE {})

\* The ancestors of n with the branch of their link to n.
gatingSet(n) ==
  UNION {{[node |-> Ancestors(n, b).nodes[i], branch |-> b] :
            i \in 1..Len(Ancestors(n, b).nodes)} : b \in Branches}

\* The ancestor has a state that routes along a link with this branch.
routes(a) ==
  /\ a.node \in DOMAIN stateOf
  /\ stateOf[a.node].Value = ContinueState
  /\ stateOf[a.node].Branch = a.branch

\* "run": n is eligible and Compute is invoked; "skip": n receives Skip without
\* being executed; "wait": nothing is done with n for now.
gate(n) ==
  LET anc == gatingSet(n)
      mode == JoinModeOfNode(nodesJoinModes, n)
  IN  IF anc = {} THEN "run"
      ELSE IF mode = JoinOr
      THEN (IF \E a \in anc : routes(a) THEN "run" ELSE "wait")
      ELSE IF \E a \in anc : a.node \notin DOMAIN stateOf THEN "wait"
      ELSE IF \A a \in anc : routes(a) THEN "run"
      ELSE "skip"

\* The successors of n, over all its branches.
successors(n) ==
  Follow(n, NoBranch).nodes \o Follow(n, "true").nodes \o Follow(n, "false").nodes

record(f, n, v) == [x \in DOMAIN f \cup {n} |-> IF x = n THEN v ELSE f[x]]

timesInvoked(n) == IF n \in DOMAIN invoked THEN invoked[n] ELSE 0

\* What the driver does with an eligible node: Compute, the state recorded,
\* the abort or the successors enqueued.
execute(n) ==
  \E result \in ComputeResults(n) :
    LET state == IF DecideCapability(n) /\ result = NewContinueComputeState
                 THEN NewAbortComputeState(
                        [obj |-> 4, msg |-> "decision node must choose a branch"])
                 ELSE result
    IN  /\ invoked' = record(invoked, n, timesInvoked(n) + 1)
        /\ stateOf' = record(stateOf, n, state)
        /\ aborted' = (state.Value = AbortState)
        /\ pending' = IF state.Value = AbortState
                      THEN Tail(pending)
                      ELSE Tail(pending) \o successors(n)

\* execute for a driver that does not look whether n has a state already.
ComputationStepTwice ==
  /\ ~aborted
  /\ pending # <<>>
  /\ LET n == Head(pending)
     IN  IF gate(n) = "run" THEN execute(n)
         ELSE IF gate(n) = "skip" /\ n \notin DOMAIN stateOf
         THEN /\ stateOf' = record(stateOf, n, NewSkipComputeState)
              /\ pending' = Tail(pending) \o successors(n)
              /\ UNCHANGED <<aborted, invoked>>
         ELSE /\ pending' = Tail(pending)
              /\ UNCHANGED <<stateOf, aborted, invoked>>
  /\ UNCHANGED <<system, ret, activatedAgain, runStates, cycleSearch>>

\* One step of the driver: it takes the next node of the queue.
ComputationStep ==
  /\ ~aborted
  /\ pending # <<>>
  /\ LET n == Head(pending)
     IN  IF n \in DOMAIN stateOf \/ gate(n) = "wait"
         THEN /\ pending' = Tail(pending)
              /\ UNCHANGED <<stateOf, aborted, invoked>>
         ELSE IF gate(n) = "skip"
         THEN /\ stateOf' = record(stateOf, n, NewSkipComputeState)
              /\ pending' = Tail(pending) \o successors(n)
              /\ UNCHANGED <<aborted, invoked>>
         ELSE execute(n)
  /\ UNCHANGED <<system, ret, activatedAgain, runStates, cycleSearch>>

NextComputation == ComputationStep

SpecComputation == InitComputation /\ [][NextComputation]_vars

(***************************************************************************)
(* findCycle in steps: one step enters a call, starts the call of the next *)
(* selected link, or returns from a call.                                  *)
(***************************************************************************)
MaxSearchLinks == 4
MaxWalkLen == 6

SearchNodeInputs == <<"A", "B", "C">>
SearchLinkInputs ==
  {newNodeLink("A", "B"), newNodeLink("B", "A"),
   newNodeLink("B", "C"), newNodeLink("C", "B")}

\* A call of findCycle: its arguments, the place in its loop over the selected
\* links (0 before the loop) and its cycles.
findCycleCall(currentNode, walkednodeLinks) ==
  [currentNode |-> currentNode, walkednodeLinks |-> walkednodeLinks,
   k |-> 0, cycles |-> <<>>]

\* The builder state checkForCyclicRedundancyInNodeLinks looks at, and its call
\* findCycle(s, node, node, nil) for one of the nodes.
InitSearch ==
  /\ activated = FALSE
  /\ nodes = SearchNodeInputs
  /\ \E n \in 0..MaxSearchLinks : links \in [1..n -> SearchLinkInputs]
  /\ nodesJoinModes = EmptyMap
  /\ initialNodes = <<>>
  /\ followingNodesTree = EmptyMap
  /\ ancestorsNodesTree = EmptyMap
  /\ ret = Ret(TRUE, "")
  /\ activatedAgain = FALSE
  /\ runStates = NoRunStates
  /\ NoComputation
  /\ \E i \in 1..Len(SearchNodeInputs) :
       cycleSearch = [NoSearch EXCEPT
                        !.topNode = SearchNodeInputs[i],
                        !.stack = <<findCycleCall(SearchNodeInputs[i], NilSlice)>>]

\* return cycles: the call ends and its caller appends the cycles to its own
\* and goes on with its next selected link.
findCycleReturns(cycles) ==
  LET stack == cycleSearch.stack
      d == Len(stack)
  IN  IF d = 1
      THEN [cycleSearch EXCEPT !.stack = <<>>, !.done = TRUE, !.cycles = cycles]
      ELSE [cycleSearch EXCEPT
              !.stack = [SubSeq(stack, 1, d - 1) EXCEPT
                           ![d - 1].cycles = @ \o cycles,
                           ![d - 1].k = @ + 1]]

\* The entry of a call without the look at the links already walked.
FindCycleEnterWithoutRevisit ==
  /\ cycleSearch.stack # <<>>
  /\ LET d == Len(cycleSearch.stack)
         call == cycleSearch.stack[d]
     IN  /\ call.k = 0
         /\ cycleSearch' =
              IF call.walkednodeLinks.len > 0 /\ cycleSearch.topNode = call.currentNode
              THEN findCycleReturns(<<call.walkednodeLinks>>)
              ELSE [cycleSearch EXCEPT !.stack[d].k = 1]
  /\ UNCHANGED <<system, ret, activatedAgain, runStates, computation>>

\* The entry of a call: back on topNode, on a node already walked from, or on
\* to the loop over the selected links.
FindCycleEnter ==
  /\ cycleSearch.stack # <<>>
  /\ LET d == Len(cycleSearch.stack)
         call == cycleSearch.stack[d]
         walked == sliceValue(cycleSearch.heap, call.walkednodeLinks)
     IN  /\ call.k = 0
         /\ cycleSearch' =
              IF call.walkednodeLinks.len > 0 /\ cycleSearch.topNode = call.currentNode
              THEN findCycleReturns(<<call.walkednodeLinks>>)
              ELSE IF \E i \in 1..Len(walked) : call.currentNode = walked[i].From
              THEN findCycleReturns(<<>>)
              ELSE [cycleSearch EXCEPT !.stack[d].k = 1]
  /\ UNCHANGED <<system, ret, activatedAgain, runStates, computation>>

\* One turn of the loop: append the link to the walk and call findCycle on the
\* node the link leads to.
FindCycleFollowLink ==
  /\ cycleSearch.stack # <<>>
  /\ LET d == Len(cycleSearch.stack)
         call == cycleSearch.stack[d]
         selectedLinks == selectLinks(links, call.currentNode)
     IN  /\ call.k >= 1
         /\ call.k <= Len(selectedLinks)
         /\ call.walkednodeLinks.len < MaxWalkLen
         /\ LET a == goAppend(cycleSearch.heap, call.walkednodeLinks,
                              selectedLinks[call.k])
            IN  cycleSearch' =
                  [cycleSearch EXCEPT
                     !.heap = a.heap,
                     !.stack = Append(@, findCycleCall(selectedLinks[call.k].To,
                                                       a.slice))]
  /\ UNCHANGED <<system, ret, activatedAgain, runStates, computation>>

\* The loop is over (or there was no selected link): return cycles.
FindCycleLoopEnd ==
  /\ cycleSearch.stack # <<>>
  /\ LET d == Len(cycleSearch.stack)
         call == cycleSearch.stack[d]
     IN  /\ call.k >= 1
         /\ call.k > Len(selectLinks(links, call.currentNode))
         /\ cycleSearch' = findCycleReturns(call.cycles)
  /\ UNCHANGED <<system, ret, activatedAgain, runStates, computation>>

NextSearch ==
  \/ FindCycleEnter
  \/ FindCycleFollowLink
  \/ FindCycleLoopEnd

\* The search is one goroutine that runs until it returns.
SpecSearch == InitSearch /\ [][NextSearch]_vars /\ WF_vars(NextSearch)

(***************************************************************************)
(* Properties.                                                             *)
(***************************************************************************)
Declared(ns) == {ns[i] : i \in 1..Len(ns)}

Occurrences(ns, n) == Cardinality({i \in 1..Len(ns) : ns[i] = n})

InboundLinks(ls, n) == Cardinality({k \in 1..Len(ls) : ls[k].To = n})

ErrorsOfKind(errors, kind) == SelectSeq(errors, LAMBDA e : e.kind = kind)

\* What IsValid can do in the current state.
IsValidNow == IsValid(nodes, nodesJoinModes, links)

\* The nodes reached from the nodes of S along the links, S included.
RECURSIVE ReachableFrom(_, _)
ReachableFrom(ls, S) ==
  LET T == S \cup {ls[k].To : k \in {k \in 1..Len(ls) : ls[k].From \in S}}
  IN  IF T = S THEN S ELSE ReachableFrom(ls, T)

HasDirectedCycle(ls) ==
  \E k \in 1..Len(ls) : ls[k].From \in ReachableFrom(ls, {ls[k].To})

\* C1: once activated, AddNode, AddLink, AddLinkOnBranch and
\* ConfigureJoinModeOnNode return (false, their "freeze due to activation"
\* error) whatever the arguments, and every field of the system keeps its value.
C1_FrozenStep ==
  activated =>
    /\ \A n \in NodeInputs :
         AddNode(n) => ret' = Ret(FALSE, FrozenAddNodeError) /\ UNCHANGED system
    /\ \A n \in JoinNodeInputs, m \in JoinModes :
         ConfigureJoinModeOnNode(n, m) =>
           ret' = Ret(FALSE, FrozenJoinModeError) /\ UNCHANGED system
    /\ \A l \in LinkInputs :
         addLink(l[1], l[2], l[3]) =>
           ret' = Ret(FALSE, FrozenAddLinkError) /\ UNCHANGED system
    /\ UNCHANGED system

C1_FrozenAfterActivate == [][C1_FrozenStep]_vars

\* C1 witness: an activated system on which an AddLink call has just failed.
C1_Witness == activated /\ ret = Ret(FALSE, FrozenAddLinkError) /\ Len(links) > 0

\* C2: on a system that is not activated, Activate succeeds exactly when
\* IsValid has no error; otherwise it returns "can't activate a unvalidated
\* node system" and changes nothing.
C2_ActivateStep ==
  (~activated /\ Activate) =>
    IF \A r \in IsValidNow : r.ok
    THEN activated' /\ ret' = Ret(TRUE, "")
    ELSE ret' = Ret(FALSE, UnvalidatedError) /\ UNCHANGED system

C2_ActivateIffValid == [][C2_ActivateStep]_vars

\* C3: an activated system has no directed cycle in its links.
C3_NoCycleWhenActivated == activated => ~HasDirectedCycle(links)

\* C3 witness: an activated system with a walk of four links, the last of
\* them on a branch of a decision node.
C3_Witness ==
  /\ activated
  /\ \E i, j, k, l \in 1..Len(links) :
       /\ links[i].To = links[j].From
       /\ links[j].To = links[k].From
       /\ links[k].To = links[l].From
       /\ links[l].Branch # NoBranch

\* C4: for a node n whose join mode is None (not configured, or configured
\* as JoinNone), IsValid returns a "can't have multiple links" error for n
\* exactly when at least two stored links have n as their target, a link added
\* twice counting twice; and in an activated system a node with two or more
\* inbound links has join mode And or Or.
C4_MultipleLinksIffJoinNone ==
  /\ \A r \in IsValidNow :
       \A n \in Nodes :
         JoinModeOfNode(nodesJoinModes, n) = JoinNone =>
           ((\E i \in 1..Len(r.errors) :
               r.errors[i].kind = MultipleLinksKind /\ r.errors[i].node = n)
            <=> InboundLinks(links, n) >= 2)
  /\ activated =>
       \A n \in Nodes :
         InboundLinks(links, n) >= 2 =>
           JoinModeOfNode(nodesJoinModes, n) \in {JoinAnd, JoinOr}

\* C5: for a node that appears k > 1 times in nodes, IsValid returns exactly
\* one "can't have multiple instances" error, and the count it reports is k;
\* for a node that appears once it returns none.
C5_OneDuplicateErrorWithCount ==
  \A r \in IsValidNow :
    \A n \in Nodes :
      LET k == Occurrences(nodes, n)
          es == SelectSeq(r.errors,
                  LAMBDA e : e.kind = MultipleInstancesKind /\ e.node = n)
      IN  IF k > 1 THEN Len(es) = 1 /\ es[1].count = k ELSE Len(es) = 0

\* The sets of links that are a directed cycle: every node the set leaves is
\* left once and entered once, and the walk from one link comes back through
\* all of them.
RECURSIVE WalkFrom(_, _, _)
WalkFrom(S, l, seen) ==
  IF l \in seen THEN seen
  ELSE WalkFrom(S, CHOOSE m \in S : m.From = l.To, seen \cup {l})

IsCycle(S) ==
  /\ S # {}
  /\ \A l \in S : Cardinality({m \in S : m.From = l.To}) = 1
  /\ \A l \in S : Cardinality({m \in S : m.From = l.From}) = 1
  /\ \A l \in S : WalkFrom(S, l, {}) = S

DistinctCycles(ls) ==
  {S \in SUBSET {ls[k] : k \in 1..Len(ls)} : IsCycle(S)}

\* C6: IsValid returns exactly one cycle error for each distinct directed
\* cycle of the links, two cycles being the same when they are made of the
\* same links.
C6_OneErrorPerCycle ==
  \A r \in IsValidNow :
    ~r.panic =>
      Len(ErrorsOfKind(r.errors, CycleKind)) = Cardinality(DistinctCycles(links))

\* C7: in an activated system both ends of every link are declared; and
\* IsValid returns one undeclared-node error for each 'from' and for each 'to'
\* of a link that is not in nodes.
C7_UndeclaredEndpoints ==
  /\ activated =>
       \A k \in 1..Len(links) :
         links[k].From \in Declared(nodes) /\ links[k].To \in Declared(nodes)
  /\ \A r \in IsValidNow :
       /\ \A l \in {links[k] : k \in 1..Len(links)} :
            LET n == Cardinality({k \in 1..Len(links) : links[k] = l})
                of(kind, end) ==
                  Len(SelectSeq(r.errors,
                        LAMBDA e : e.kind = kind /\ e.links = <<l>> /\ e.node = end))
            IN  /\ of(UndeclaredFromKind, l.From) =
                     (IF l.From \in Declared(nodes) THEN 0 ELSE n)
                /\ of(UndeclaredToKind, l.To) =
                     (IF l.To \in Declared(nodes) THEN 0 ELSE n)
       /\ Len(ErrorsOfKind(r.errors, UndeclaredFromKind))
            = Cardinality({k \in 1..Len(links) : links[k].From \notin Declared(nodes)})
       /\ Len(ErrorsOfKind(r.errors, UndeclaredToKind))
            = Cardinality({k \in 1..Len(links) : links[k].To \notin Declared(nodes)})

\* C8: in an activated system InitialNodes is the declared nodes that no link
\* has as its target, in the order of nodes; none of them is the target of a
\* link, and every declared node is one of them or the target of a link.
C8_InitialNodes ==
  activated =>
    LET targets == {links[k].To : k \in 1..Len(links)}
    IN  /\ InitialNodes = SelectSeq(nodes, LAMBDA n : n \notin targets)
        /\ \A i \in 1..Len(InitialNodes) : InitialNodes[i] \notin targets
        /\ \A n \in Declared(nodes) :
             n \in targets \/ \E i \in 1..Len(InitialNodes) : InitialNodes[i] = n

\* C8 witness: an activated system with two initial nodes and a node that is
\* not initial.
C8_Witness ==
  /\ activated
  /\ Len(InitialNodes) = 2
  /\ Len(nodes) = 3

\* C9: in an activated system Follow(n, b) is the targets of the links whose
\* from is n and whose branch is b, in the order of the links, and empty when
\* there is none.
C9_Follow ==
  activated =>
    \A n \in Nodes, b \in Branches :
      LET bucket == SelectSeq(links, LAMBDA l : l.From = n /\ l.Branch = b)
      IN  /\ Follow(n, b).err = ""
          /\ Follow(n, b).nodes = [i \in 1..Len(bucket) |-> bucket[i].To]

\* C9 witness: an activated system where one bucket holds two different nodes
\* and a decision node has a link on a branch.
C9_Witness ==
  /\ activated
  /\ \E n \in Nodes, b \in Branches :
       /\ Len(Follow(n, b).nodes) = 2
       /\ Follow(n, b).nodes[1] # Follow(n, b).nodes[2]
  /\ \E n \in DecisionNodes : Len(Follow(n, "true").nodes) = 1

\* C10: Activate on an activated system returns no error and changes nothing.
C10_ActivateAgainStep ==
  (activated /\ Activate) => (ret' = Ret(TRUE, "") /\ UNCHANGED system)

C10_ActivateIdempotent == [][C10_ActivateAgainStep]_vars

\* C10 witness: Activate has just returned from a call on a system with
\* links that was already activated.
C10_Witness ==
  activated /\ activatedAgain /\ ret = Ret(TRUE, "") /\ Len(links) > 0

\* C11: two calls of IsValid in the same builder state return the same
\* validity flag and the same errors in the same order (IsValid assigns to no
\* field of the system, so the two calls see the same state).
C11_IsValidPure ==
  \A r1, r2 \in IsValidNow : (~r1.panic /\ ~r2.panic) => r1 = r2

\* A stored link as C12 wants it.
LinkWellFormed(l) ==
  /\ l.From # Nil
  /\ l.To # Nil
  /\ l.From # l.To
  /\ (l.Branch # NoBranch) <=> DecideCapability(l.From)

\* Arguments (from, to, branch) of addLink that C12 wants refused.
LinkArgumentsRefused(a) ==
  \/ a[1] = Nil
  \/ a[2] = Nil
  \/ a[1] = a[2]
  \/ a[1] # Nil /\ ((a[3] # NoBranch) <=> ~DecideCapability(a[1]))

\* C12: every stored link has a from, a to, from # to, and a branch exactly
\* when its from is a decision node; and a call of AddLink or AddLinkOnBranch
\* with a missing from, a missing to, from = to, a decision node without a
\* branch or an action node with a branch returns (false, an error) and leaves
\* links as they were.
C12_LinkStep ==
  /\ \A k \in 1..Len(links') : LinkWellFormed(links'[k])
  /\ \/ ~ret'.ok /\ ret'.err # "" /\ links' = links
     \/ \A a \in LinkInputs :
          ~(LinkArgumentsRefused(a) /\ addLink(a[1], a[2], a[3]))

C12_StoredLinksWellFormed == [][C12_LinkStep]_vars

\* C12 witness: a system that is not activated, holding a link on a branch and
\* a link without one, on which a link from a node to itself has just been
\* refused.
C12_Witness ==
  /\ ~activated
  /\ ret = Ret(FALSE, "can't have link on from and to the same node")
  /\ \E k \in 1..Len(links) : links[k].Branch # NoBranch
  /\ \E k \in 1..Len(links) : links[k].Branch = NoBranch

\* C13: IsValid returns an orphan-decision error for every declared decision
\* node that no stored link has as its from, once for each time the node is
\* declared, and for no other node; and in an activated system every declared
\* decision node has a link from it.
C13_OrphanDecisionNodes ==
  /\ \A r \in IsValidNow :
       \A n \in Nodes :
         Len(SelectSeq(r.errors, LAMBDA e : e.kind = OrphanKind /\ e.node = n))
           = (IF DecideCapability(n) /\ \A k \in 1..Len(links) : links[k].From # n
              THEN Occurrences(nodes, n)
              ELSE 0)
  /\ activated =>
       \A n \in Declared(nodes) :
         DecideCapability(n) => \E k \in 1..Len(links) : links[k].From = n

\* C14: NewContinueComputeState gives the tag Continue, no branch, no error
\* and the string 'Continue'; NewContinueOnBranchComputeState(b) the tag
\* Continue, the branch b, no error and 'Continue on <b>'; NewSkipComputeState
\* the tag Skip, no branch, no error and 'Skip'; NewAbortComputeState(err) the
\* tag Abort, no branch, the error err and 'Abort on <err>'; a state made by
\* NewContinueOnBranchComputeState differs from the one NewContinueComputeState
\* makes by its branch only; and each case of Test_ComputeState_Call passes.
C14_Constructors ==
  /\ \A i \in 1..3 :
       LET call == runStates[i].call
           cs == runStates[i].state
       IN  /\ call[1] = "NewContinueComputeState" =>
                /\ cs.Value = ContinueState /\ cs.Branch = NoBranch
                /\ cs.Error = NoError
                /\ ComputeStateString(cs) = "'Continue'"
           /\ call[1] = "NewContinueOnBranchComputeState" =>
                /\ cs.Value = ContinueState
                /\ cs.Branch # NoBranch /\ deref(cs.Branch) = call[2]
                /\ cs.Error = NoError
                /\ ComputeStateString(cs) =
                     (IF call[2] THEN "'Continue on true'" ELSE "'Continue on false'")
                /\ [cs EXCEPT !.Branch = NoBranch] = NewContinueComputeState
           /\ call[1] = "NewSkipComputeState" =>
                /\ cs.Value = SkipState /\ cs.Branch = NoBranch
                /\ cs.Error = NoError
                /\ ComputeStateString(cs) = "'Skip'"
           /\ call[1] = "NewAbortComputeState" =>
                /\ cs.Value = AbortState /\ cs.Branch = NoBranch
                /\ cs.Error = call[2]
                /\ ComputeStateString(cs) =
                     (IF call[2].msg = "error" THEN "'Abort on error'"
                      ELSE "'Abort on boom'")
           /\ \A testCase \in testCases :
                testCase.call = call => testPasses(testCase, cs)

\* C14 witness: the three slots hold states made by NewAbortComputeState,
\* NewContinueOnBranchComputeState(true) and NewSkipComputeState.
C14_Witness ==
  /\ runStates[1].call = <<"NewAbortComputeState", [obj |-> 1, msg |-> "error"]>>
  /\ runStates[2].call = <<"NewContinueOnBranchComputeState", TRUE>>
  /\ runStates[3].call = <<"NewSkipComputeState">>

\* What C15 says makes two states equal.
SameState(x, y) ==
  /\ x.Value = y.Value
  /\ \/ x.Branch = NoBranch /\ y.Branch = NoBranch
     \/ x.Branch # NoBranch /\ y.Branch # NoBranch /\ deref(x.Branch) = deref(y.Branch)
  /\ \/ x.Error = NoError /\ y.Error = NoError
     \/ x.Error # NoError /\ y.Error # NoError /\ x.Error.msg = y.Error.msg

\* C15: two states are equal (runStateEqualOpts) exactly when their tags are
\* equal, their branches are both absent or both present with the same
\* boolean, and their errors are both absent or both present with the same
\* message; the relation is reflexive, symmetric and transitive; and a plain
\* Continue is never equal to a Continue on a branch.
C15_RunStateEquality ==
  LET st(i) == runStates[i].state
  IN  /\ \A i, j \in 1..3 :
           /\ runStateEqualOpts(st(i), st(j)) <=> SameState(st(i), st(j))
           /\ runStateEqualOpts(st(i), st(i))
           /\ runStateEqualOpts(st(i), st(j)) => runStateEqualOpts(st(j), st(i))
           /\ (/\ st(i).Value = ContinueState /\ st(i).Branch = NoBranch
               /\ st(j).Value = ContinueState /\ st(j).Branch # NoBranch)
                => ~runStateEqualOpts(st(i), st(j))
      /\ \A i, j, k \in 1..3 :
           (runStateEqualOpts(st(i), st(j)) /\ runStateEqualOpts(st(j), st(k)))
             => runStateEqualOpts(st(i), st(k))

\* C15 witness: two states that are equal through different pointers to
\* true, and a third state that is equal to neither.
C15_Witness ==
  /\ runStates[1].state = ComputeState(ContinueState, "true", [obj |-> 2, msg |-> "error"])
  /\ runStates[2].state = ComputeState(ContinueState, "otherTrue", [obj |-> 2, msg |-> "error"])
  /\ runStates[3].state = ComputeState(AbortState, "otherTrue", [obj |-> 3, msg |-> "boom"])
  /\ runStateEqualOpts(runStates[1].state, runStates[2].state)
  /\ ~runStateEqualOpts(runStates[2].state, runStates[3].state)

\* C16: in a computation on an activated node system Compute is invoked at
\* most once on each node, also on a node with join mode Or or And that
\* several ancestors route to.
C16_ComputeAtMostOnce ==
  \A n \in Nodes : timesInvoked(n) <= 1

\* C16 witness: Compute was invoked on a node with a join mode after two of
\* its ancestors, both with a state that routes to it, and the queue is empty.
C16_Witness ==
  /\ pending = <<>>
  /\ ~aborted
  /\ \E n \in DOMAIN nodesJoinModes :
       /\ timesInvoked(n) = 1
       /\ Cardinality({a \in gatingSet(n) : routes(a)}) = 2

\* The number of places of the sequence s that hold x.
CountIn(s, x) == Cardinality({i \in 1..Len(s) : s[i] = x})

\* C17: after a successful Activate, Ancestors is the converse of Follow: for
\* all nodes n, m and every branch b, m occurs in Follow(n, b) as many times
\* as n occurs in Ancestors(m, b), and as many times as there are stored
\* links (n, m, b).
C17_AncestorsConverseOfFollow ==
  activated =>
    \A n \in Nodes, m \in Nodes, b \in Branches :
      LET stored == CountIn(links, [From |-> n, To |-> m, Branch |-> b])
      IN  /\ Follow(n, b).err = "" /\ Ancestors(m, b).err = ""
          /\ CountIn(Follow(n, b).nodes, m) = stored
          /\ CountIn(Ancestors(m, b).nodes, n) = stored

\* C17 witness: an activated system that stores the same link twice and a
\* link on a branch, to a node with ancestors on two branches.
C17_Witness ==
  /\ activated
  /\ \E n \in Nodes, m \in Nodes :
       /\ CountIn(links, newNodeLink(n, m)) = 2
       /\ CountIn(Ancestors(m, NoBranch).nodes, n) = 2
       /\ \E d \in DecisionNodes : CountIn(Ancestors(m, "true").nodes, d) = 1

\* C18: the cycle search of IsValid terminates on every builder state, with
\* cycles, overlapping cycles, cycles that do not pass through the node the
\* search started from, and repeated links: the first call of findCycle
\* returns.
C18_FindCycleTerminates == <>(cycleSearch.done)

\* C18 witness: the search from a node has returned on links that hold a
\* cycle through two other nodes, reached from the node by a link stored
\* twice.
C18_Witness ==
  /\ cycleSearch.done
  /\ cycleSearch.topNode = "A"
  /\ CountIn(links, newNodeLink("A", "B")) = 2
  /\ CountIn(links, newNodeLink("B", "C")) = 1
  /\ CountIn(links, newNodeLink("C", "B")) = 1

\* C19: in an activated system with at least one node InitialNodes is not
\* empty; it is empty after activation only for a system without nodes.
C19_InitialNodesNotEmpty ==
  activated => (InitialNodes = <<>> <=> nodes = <<>>)

\* C19 witness: an activated system where the first node is the target of a
\* link and a later node is an initial node.
C19_Witness ==
  /\ activated
  /\ Len(nodes) >= 2
  /\ InboundLinks(links, nodes[1]) > 0
  /\ InitialNodes # <<>>

\* IsValid on these nodes, join modes and links, whatever it does, returns an
\* error of the kind.
Reports(kind, ns, jm, ls) ==
  \A r \in IsValid(ns, jm, ls) : ErrorsOfKind(r.errors, kind) # <<>>

C20_Step ==
  \A kind \in {CycleKind, MultipleInstancesKind} :
    Reports(kind, nodes, nodesJoinModes, links) =>
      Reports(kind, nodes', nodesJoinModes', links') /\ ~activated'

\* C20: invalidity by a cycle or by a node declared twice is permanent: once
\* IsValid reports a cycle error or a multiple-instances error, after every
\* later AddNode, AddLink, AddLinkOnBranch, ConfigureJoinModeOnNode (and
\* Activate) IsValid still reports it and the system is not activated.
C20_InvalidityPermanent == [][C20_Step]_vars

====
